---------------------------- MODULE Spec2Model ----------------------------
(***************************************************************************)
(* Conversion-risk analysis of the Au units library: the abstract          *)
(* operations (StaticCast, MultiplyTypeBy, OpSequence), the overflow       *)
(* boundary analysis (MinGood / MaxGood / CanOverflowBelow /               *)
(* CanOverflowAbove / would_input_produce_overflow), the truncation risk   *)
(* classification (TruncationRiskFor) and the execution of an operation    *)
(* on a runtime value.                                                     *)
(*                                                                         *)
(* The analysis is compile-time template code; it is modelled as           *)
(* operators.  The state machine has two phases, as the library has:       *)
(* definition time (an operation and optional Limits are fixed and         *)
(* analysed, or rejected by a static_assert) and run time (an input value  *)
(* is checked by would_input_produce_overflow and the operation is         *)
(* applied to it, op by op).                                               *)
(*                                                                         *)
(* Numeric representations are the 8- and 16-bit integer types and one     *)
(* binary floating point format with an 8-bit significand.  Arithmetic on  *)
(* the integer types happens in `int` (integer promotion), where it is     *)
(* exact for these widths, and is converted back on assignment or return.  *)
(* Floating point values are restricted to the integral ones.              *)
(***************************************************************************)
EXTENDS Integers, Sequences, FiniteSets, TLC

VARIABLES
    ops,          \* the operation under analysis: a sequence of primitive ops
    limits,       \* the Limits the caller passes to MinGood / MaxGood
    phase,        \* "defined" | "rejected" | "analyzed" | "checked" | "applying" | "done"
    minGood,      \* MinGood<Op, Limits>::value(), as a boundary result
    maxGood,      \* MaxGood<Op, Limits>::value(), as a boundary result
    canBelow,     \* CanOverflowBelow<Op>::value
    canAbove,     \* CanOverflowAbove<Op>::value
    x,            \* the runtime input value
    tooSmall,     \* MinValueChecker<Op>::is_too_small(x)
    tooLarge,     \* MaxValueChecker<Op>::is_too_large(x)
    idx,          \* number of ops of the sequence applied so far
    val,          \* the value after idx ops
    overflowed,   \* some applied op produced a result outside its output type
    risk,         \* TruncationRiskFor<Op> or UpdateRisk<Op, Risk>, once instantiated
    downstream,   \* the Risk argument of UpdateRisk<Op, Risk>, if one is given
    request       \* the arguments of ConversionForRepsAndFactor, if it is asked for

vars == <<ops, limits, phase, minGood, maxGood, canBelow, canAbove,
          x, tooSmall, tooLarge, idx, val, overflowed, risk, downstream, request>>

----------------------------------------------------------------------------
(* Bounds of the model.                                                    *)

\* Scale factors 1..MaxFactor (with their negatives and inverses) are explored,
\* next to the factors at the edges of the 8-bit types.
MaxFactor == 3

\* Limits are drawn from {0..MaxLimitAbs}, their negatives, and the type's
\* extremes divided by 1..MaxLimitDiv (what a downstream Scale synthesizes).
MaxLimitAbs == 1
MaxLimitDiv == 2

\* Inputs of the 16-bit and floating point types are drawn from the values
\* within Probe of a landmark (zero, a type extreme, a computed bound).
Probe == 1

----------------------------------------------------------------------------
(* Integer helpers.                                                        *)

AbsInt(a) == IF a < 0 THEN -a ELSE a

SignInt(a) == IF a < 0 THEN -1 ELSE 1

\* C++ integer division: the quotient truncated toward zero.
TruncDiv(a, b) == SignInt(a) * SignInt(b) * (AbsInt(a) \div AbsInt(b))

RECURSIVE GCD(_, _)
GCD(a, b) == IF b = 0 THEN a ELSE GCD(b, a % b)

RECURSIVE Pow2(_)
Pow2(n) == IF n = 0 THEN 1 ELSE 2 * Pow2(n - 1)

\* Number of bits of a positive integer: the least n with a < 2^n.
RECURSIVE BitLen(_)
BitLen(a) == IF a = 0 THEN 0 ELSE 1 + BitLen(a \div 2)

----------------------------------------------------------------------------
(* Representations: the host numeric types, by std::numeric_limits.        *)

Int8   == [name |-> "int8_t",   kind |-> "signed",   size |-> 1,
           lowest |-> -128,   highest |-> 127,   digits |-> 7]
UInt8  == [name |-> "uint8_t",  kind |-> "unsigned", size |-> 1,
           lowest |-> 0,      highest |-> 255,   digits |-> 8]
Int16  == [name |-> "int16_t",  kind |-> "signed",   size |-> 2,
           lowest |-> -32768, highest |-> 32767, digits |-> 15]
UInt16 == [name |-> "uint16_t", kind |-> "unsigned", size |-> 2,
           lowest |-> 0,      highest |-> 65535, digits |-> 16]
\* A binary floating point format with an 8-bit significand whose range
\* exceeds that of every integer type above.
Float  == [name |-> "float",    kind |-> "float",    size |-> 4,
           lowest |-> -1044480, highest |-> 1044480, digits |-> 8]

\* int, the type that integer promotion yields for the integer types above.
\* Conversions are built in it; no arithmetic is modelled in it.
Int32  == [name |-> "int",      kind |-> "signed",   size |-> 4,
           lowest |-> -2147483647 - 1, highest |-> 2147483647, digits |-> 31]

\* A representation that is not an arithmetic type (a user-defined number
\* class): std::is_arithmetic is false for it and nothing else is known.
NonArithmetic == [name |-> "NonArithmetic", kind |-> "class", size |-> 0,
                  lowest |-> 0, highest |-> 0, digits |-> 0]

IntegerTypes == {Int8, UInt8, Int16, UInt16}
ByteTypes    == {Int8, UInt8}
ArithmeticTypes == IntegerTypes \cup {Float}

is_integral(T)       == T.kind \in {"signed", "unsigned"}
is_floating_point(T) == T.kind = "float"
is_arithmetic(T)     == is_integral(T) \/ is_floating_point(T)
is_signed(T)         == T.kind \in {"signed", "float"}
is_unsigned(T)       == T.kind = "unsigned"
is_definitely_unsigned(T) == is_arithmetic(T) /\ ~is_signed(T)
IsClampable(T)       == is_arithmetic(T)

InRange(T, v) == T.lowest <= v /\ v <= T.highest

\* std::common_type_t<A, B>: the type itself for A = B, else the type of the
\* usual arithmetic conversions, which for two of the integer types is int.
common_type_t(A, B) ==
    IF A = B THEN A
    ELSE IF is_floating_point(A) THEN A
    ELSE IF is_floating_point(B) THEN B
    ELSE Int32

\* PromotedType<T>: the type of a product of two values of T.
PromotedType(T) == IF is_integral(T) /\ T.size < Int32.size THEN Int32 ELSE T

\* Conversion of an int result to an integer type T: modulo 2^width.
WrapTo(T, v) ==
    ((v - T.lowest) % (T.highest - T.lowest + 1)) + T.lowest

\* The multiple of q nearest to a >= 0, a tie going to the even multiple.
RoundToMultiple(a, q) ==
    IF 2 * (a % q) < q THEN (a \div q) * q
    ELSE IF 2 * (a % q) > q THEN (a \div q + 1) * q
    ELSE IF (a \div q) % 2 = 0 THEN (a \div q) * q
    ELSE (a \div q + 1) * q

\* Conversion of an integer to the floating point type F: round to nearest,
\* ties to even, at F.digits significant bits.
RoundToFloat(F, v) ==
    IF AbsInt(v) < Pow2(F.digits) THEN v
    ELSE SignInt(v) * RoundToMultiple(AbsInt(v), Pow2(BitLen(AbsInt(v)) - F.digits))

IsRepresentable(T, v) ==
    IF is_floating_point(T) THEN RoundToFloat(T, v) = v /\ InRange(T, v)
    ELSE InRange(T, v)

\* static_cast<U>(v) for a value v of type T.  A floating point value outside
\* U's range has no defined conversion to the integer type U: see
\* StaticCastIsDefined.
StaticCastValue(T, U, v) ==
    IF is_floating_point(U) THEN RoundToFloat(U, v)
    ELSE IF is_floating_point(T) THEN v
    ELSE WrapTo(U, v)

StaticCastIsDefined(T, U, v) ==
    ~(is_floating_point(T) /\ is_integral(U) /\ ~InRange(U, v))

\* std::common_type_t<T, U> only matters for the comparison of the two
\* maxima, which it makes in a type that holds both exactly (int for the 8-
\* and 16-bit types).
CommonTypeCompareMaxLeq(T, U) == T.highest <= U.highest

----------------------------------------------------------------------------
(* Magnitudes: exact nonzero scale factors, num/den in lowest terms times   *)
(* a power of pi.  A magnitude with a nonzero power of pi is irrational.   *)

Mag(n, d) == [num |-> n, den |-> d, pi |-> 0]

\* Magnitude<Pi>.
PI == [num |-> 1, den |-> 1, pi |-> 1]

IsRational(M) == M.pi = 0
IsInteger(M)  == IsRational(M) /\ M.den = 1
IsPositive(M) == M.num > 0
Abs(M)        == [M EXCEPT !.num = AbsInt(M.num)]
MagInverseT(M) == [M EXCEPT !.num = SignInt(M.num) * M.den, !.den = AbsInt(M.num), !.pi = -M.pi]
DenominatorT(M) == Mag(M.den, 1)
NumeratorT(M)   == Mag(M.num, 1)

\* The product of two magnitudes, in lowest terms.
MagProductT(A, B) == [num |-> (A.num * B.num) \div GCD(AbsInt(A.num * B.num), A.den * B.den), den |-> (A.den * B.den) \div GCD(AbsInt(A.num * B.num), A.den * B.den), pi |-> A.pi + B.pi]

\* get_value_result<T>(M): the value of M in T, or that it cannot be had.
OK == "OK"
ERR_CANNOT_FIT == "ERR_CANNOT_FIT"

get_value_result(T, M) ==
    IF IsInteger(M) /\ IsRepresentable(T, M.num)
    THEN [outcome |-> OK, value |-> M.num]
    ELSE [outcome |-> ERR_CANNOT_FIT, value |-> 0]

----------------------------------------------------------------------------
(* Abstract operations.  Scale is MultiplyTypeBy; it is modelled on the    *)
(* integer representations.                                                *)

StaticCast(T, U)     == [kind |-> "StaticCast", T |-> T, U |-> U, M |-> Mag(1, 1)]
MultiplyTypeBy(T, M) == [kind |-> "MultiplyTypeBy", T |-> T, U |-> T, M |-> M]
DivideTypeBy(T, M)   == MultiplyTypeBy(T, MagInverseT(M))

OpInput(op)  == op.T
OpOutput(op) == op.U

\* An OpSequence is the sequence of its ops; a lone op is the sequence of one.
OpSequenceInput(s)  == OpInput(s[1])
OpSequenceOutput(s) == OpOutput(s[Len(s)])

MULTIPLY == "MULTIPLY"
DIVIDE_BY_INVERSE == "DIVIDE_BY_INVERSE"

approach_for_multiplying_by_mag(M) ==
    IF IsInteger(M) THEN MULTIPLY
    ELSE IF IsInteger(MagInverseT(M)) THEN DIVIDE_BY_INVERSE
    ELSE MULTIPLY

----------------------------------------------------------------------------
(* Limits: absent ("void"), or a (lower, upper) pair of the output type.   *)

NoLimits == [present |-> FALSE, lower |-> 0, upper |-> 0]
MakeLimits(lo, hi) == [present |-> TRUE, lower |-> lo, upper |-> hi]

UpperLimit(T, Limits) == IF Limits.present THEN Limits.upper ELSE T.highest

LowerLimit(T, Limits) == IF Limits.present THEN Limits.lower ELSE T.lowest

NegativeLowerLimit(T, Limits) ==
    IF is_signed(T) /\ is_integral(T) /\ LowerLimit(T, Limits) = T.lowest
    THEN T.highest
    ELSE WrapTo(T, -LowerLimit(T, Limits))

----------------------------------------------------------------------------
(* Overflow boundary of StaticCast<T, U>: the value() of each helper.      *)

ValueIsZero(T) == 0

\* LOWEST_T_IN_U <= U_LIMIT ? static_cast<T>(U_LIMIT) : lowest of T.
ValueIsSourceLowestUnlessDestLimitIsHigher(T, U, ULimit) ==
    IF StaticCastValue(T, U, T.lowest) <= LowerLimit(U, ULimit)
    THEN StaticCastValue(U, T, LowerLimit(U, ULimit))
    ELSE T.lowest

\* HIGHEST_T_IN_U >= U_LIMIT ? static_cast<T>(U_LIMIT) : max of T.
ValueIsSourceHighestUnlessDestLimitIsLower(T, U, ULimit) ==
    IF StaticCastValue(T, U, T.highest) >= UpperLimit(U, ULimit)
    THEN StaticCastValue(U, T, UpperLimit(U, ULimit))
    ELSE T.highest

ValueIsLowestInDestination(T, U, ULimit) ==
    StaticCastValue(U, T, LowerLimit(U, ULimit))

ValueIsHighestInDestination(T, U, ULimit) ==
    StaticCastValue(U, T, UpperLimit(U, ULimit))

\* The static_assert of ValueIsLowestInDestination / ValueIsHighestInDestination:
\* the limit survives the round trip through T.
RoundTripIsLossless(T, U, limit, inT) ==
    /\ StaticCastIsDefined(U, T, limit)
    /\ StaticCastIsDefined(T, U, inT)
    /\ StaticCastValue(T, U, inT) = limit

LosslessRoundTrip(T, U, limit) ==
    RoundTripIsLossless(T, U, limit, StaticCastValue(U, T, limit))

\* Floating point addition: the exact sum, rounded.
FloatAdd(F, a, b) == RoundToFloat(F, a + b)

\* while (x + ONE > x) { last = x; x += x + ONE; }  return last;
RECURSIVE max_mantissa_loop(_, _, _)
\* A max_mantissa whose loop hands back the value it stopped at, not the last
\* value that could still be told apart from its successor.
max_mantissa_loop_ReturnsCurrent(F, xx, last) ==
    IF FloatAdd(F, xx, 1) > xx
    THEN max_mantissa_loop(F, FloatAdd(F, xx, FloatAdd(F, xx, 1)), xx)
    ELSE xx

max_mantissa_loop(F, xx, last) ==
    IF FloatAdd(F, xx, 1) > xx
    THEN max_mantissa_loop(F, FloatAdd(F, xx, FloatAdd(F, xx, 1)), xx)
    ELSE last

max_mantissa(F) == max_mantissa_loop(F, 1, 1)

\* while (x + x < LIMIT) { x += x; }  return x;
RECURSIVE doubling_loop(_, _, _)
doubling_loop(F, xx, LIMIT) ==
    IF FloatAdd(F, xx, xx) < LIMIT
    THEN doubling_loop(F, FloatAdd(F, xx, xx), LIMIT)
    ELSE xx

compute_value_from(F, LIMIT, MAX_MANTISSA) ==
    IF LIMIT <= MAX_MANTISSA THEN LIMIT
    ELSE doubling_loop(F, MAX_MANTISSA, LIMIT)

compute_value(F, I) ==
    compute_value_from(F, StaticCastValue(I, F, I.highest), max_mantissa(F))

LesserOf(FLOAT_LIMIT, EXPLICIT_LIMIT) ==
    IF FLOAT_LIMIT <= EXPLICIT_LIMIT THEN FLOAT_LIMIT ELSE EXPLICIT_LIMIT

ValueIsMaxFloatNotExceedingMaxInt(F, I, IntLimit) ==
    LesserOf(compute_value(F, I), StaticCastValue(I, F, UpperLimit(I, IntLimit)))

\* The clusters below select an implementation type; Value gives its value()
\* and Compiles tells whether its static_asserts and constant expressions hold.
\* MinGood<StaticCast<T, U>> cluster, (N) -> (X) up to (X) -> (X).
MinGoodImplForStaticCastFromSignedToSigned(T, U) ==
    IF T.size <= U.size
    THEN "ValueIsSourceLowestUnlessDestLimitIsHigher"
    ELSE "ValueIsLowestInDestination"

\* A signed source dispatched without looking at the destination's signedness.
MinGoodImplForStaticCastFromSignedToIntegral_IgnoresUnsigned(T, U) ==
    MinGoodImplForStaticCastFromSignedToSigned(T, U)

MinGoodImplForStaticCastFromSignedToIntegral(T, U) ==
    IF is_unsigned(U) THEN "ValueIsZero"
    ELSE MinGoodImplForStaticCastFromSignedToSigned(T, U)

MinGoodImplForStaticCastFromSignedToArithmetic(T, U) ==
    IF is_floating_point(U)
    THEN "ValueIsSourceLowestUnlessDestLimitIsHigher"
    ELSE MinGoodImplForStaticCastFromSignedToIntegral(T, U)

\* An integral source dispatched without looking at the source's signedness.
MinGoodImplForStaticCastFromIntegralToArithmetic_IgnoresUnsigned(T, U) ==
    MinGoodImplForStaticCastFromSignedToArithmetic(T, U)

MinGoodImplForStaticCastFromIntegralToArithmetic(T, U) ==
    IF is_unsigned(T)
    THEN "ValueIsSourceLowestUnlessDestLimitIsHigher"
    ELSE MinGoodImplForStaticCastFromSignedToArithmetic(T, U)

MinGoodImplForStaticCastFromFloatingPointToFloatingPoint(T, U) ==
    IF T.size <= U.size
    THEN "ValueIsSourceLowestUnlessDestLimitIsHigher"
    ELSE "ValueIsLowestInDestination"

MinGoodImplForStaticCastFromFloatingPointToArithmetic(T, U) ==
    IF is_floating_point(U)
    THEN MinGoodImplForStaticCastFromFloatingPointToFloatingPoint(T, U)
    ELSE "ValueIsLowestInDestination"

MinGoodImplForStaticCastFromArithmeticToArithmetic(T, U) ==
    IF is_integral(T)
    THEN MinGoodImplForStaticCastFromIntegralToArithmetic(T, U)
    ELSE MinGoodImplForStaticCastFromFloatingPointToArithmetic(T, U)

MinGoodImplForStaticCastFromArithmetic(T, U) ==
    IF is_arithmetic(U)
    THEN MinGoodImplForStaticCastFromArithmeticToArithmetic(T, U)
    ELSE "OverflowBoundaryNotYetImplemented"

MinGoodImplForStaticCastUsingRealPart(T, U) ==
    IF is_arithmetic(T)
    THEN MinGoodImplForStaticCastFromArithmetic(T, U)
    ELSE "OverflowBoundaryNotYetImplemented"

\* MaxGood<StaticCast<T, U>> cluster, (N) -> (X) up to (X) -> (X).
\* The comparison of the two maxima with its branches exchanged.
MaxGoodImplForStaticCastFromIntegralToIntegral_Swapped(T, U) ==
    IF CommonTypeCompareMaxLeq(T, U)
    THEN "ValueIsHighestInDestination"
    ELSE "ValueIsSourceHighestUnlessDestLimitIsLower"

MaxGoodImplForStaticCastFromIntegralToIntegral(T, U) ==
    IF CommonTypeCompareMaxLeq(T, U)
    THEN "ValueIsSourceHighestUnlessDestLimitIsLower"
    ELSE "ValueIsHighestInDestination"

MaxGoodImplForStaticCastFromIntegralToArithmetic(T, U) ==
    IF is_integral(U)
    THEN MaxGoodImplForStaticCastFromIntegralToIntegral(T, U)
    ELSE "ValueIsSourceHighestUnlessDestLimitIsLower"

MaxGoodImplForStaticCastFromFloatingPointToFloatingPoint(T, U) ==
    IF T.size <= U.size
    THEN "ValueIsSourceHighestUnlessDestLimitIsLower"
    ELSE "ValueIsHighestInDestination"

MaxGoodImplForStaticCastFromFloatingPointToArithmetic(T, U) ==
    IF is_floating_point(U)
    THEN MaxGoodImplForStaticCastFromFloatingPointToFloatingPoint(T, U)
    ELSE "ValueIsMaxFloatNotExceedingMaxInt"

MaxGoodImplForStaticCastFromArithmeticToArithmetic(T, U) ==
    IF is_integral(T)
    THEN MaxGoodImplForStaticCastFromIntegralToArithmetic(T, U)
    ELSE MaxGoodImplForStaticCastFromFloatingPointToArithmetic(T, U)

MaxGoodImplForStaticCastFromArithmetic(T, U) ==
    IF is_arithmetic(U)
    THEN MaxGoodImplForStaticCastFromArithmeticToArithmetic(T, U)
    ELSE "OverflowBoundaryNotYetImplemented"

MaxGoodImplForStaticCastUsingRealPart(T, U) ==
    IF is_arithmetic(T)
    THEN MaxGoodImplForStaticCastFromArithmetic(T, U)
    ELSE "OverflowBoundaryNotYetImplemented"

----------------------------------------------------------------------------
(* Overflow boundary of MultiplyTypeBy<T, M>: the value() of each helper.  *)

\* MagHelper<T, M, outcome>::div: a / b when the value of M in T is OK, else
\* T{0} ("divide by infinity").
MagHelper_div(T, result, a) ==
    IF result.outcome = OK THEN WrapTo(T, TruncDiv(a, result.value)) ELSE 0

\* MagHelper<T, M, outcome>::equal.
MagHelper_equal(result, v) ==
    IF result.outcome = OK THEN v = result.value ELSE FALSE

divide_by_mag(T, v, M) == MagHelper_div(T, get_value_result(T, M), v)

mag_representation_equals(T, v, M) == MagHelper_equal(get_value_result(T, M), v)

\* The lower limit taken whatever the sign of M.
LowestOfLimitsDividedByValue_AlwaysLowerLimit(T, M, Limits) == divide_by_mag(T, LowerLimit(T, Limits), M)

\* divide_by_mag(RELEVANT_LIMIT, M), the limit being the lower one for M > 0.
LowestOfLimitsDividedByValue(T, M, Limits) ==
    divide_by_mag(T,
                  IF IsPositive(M) THEN LowerLimit(T, Limits)
                  ELSE UpperLimit(T, Limits),
                  M)

\* SHOULD_CLAMP ? lowest : RELEVANT_LIMIT * ABS_DIVISOR, with
\* RELEVANT_BOUND = positive ? lowest / ABS_DIVISOR : -(max / ABS_DIVISOR).
ClampLowestWithDivisor(T, positive, RELEVANT_LIMIT, ABS_DIVISOR) ==
    IF (IF positive THEN TruncDiv(T.lowest, ABS_DIVISOR)
        ELSE -TruncDiv(T.highest, ABS_DIVISOR)) >= RELEVANT_LIMIT
    THEN T.lowest
    ELSE WrapTo(T, RELEVANT_LIMIT * ABS_DIVISOR)

ClampLowestOfLimitsTimesInverseValueIfClampableIs(T, positive, RELEVANT_LIMIT, ABS_DIVISOR_RESULT) ==
    IF ABS_DIVISOR_RESULT.outcome = ERR_CANNOT_FIT THEN T.lowest
    ELSE ClampLowestWithDivisor(T, positive, RELEVANT_LIMIT,
                                IF ABS_DIVISOR_RESULT.outcome = OK
                                THEN ABS_DIVISOR_RESULT.value ELSE 1)

\* With CommonVarsForClampLowest: RELEVANT_LIMIT and ABS_DIVISOR_RESULT.
ClampLowestOfLimitsTimesInverseValue(T, M, Limits) ==
    ClampLowestOfLimitsTimesInverseValueIfClampableIs(
        T, IsPositive(M),
        IF IsPositive(M) THEN LowerLimit(T, Limits)
        ELSE WrapTo(T, -UpperLimit(T, Limits)),
        get_value_result(T, MagInverseT(Abs(M))))

\* The division of the relevant limit without the case for M = -1.
HighestOfLimitsDividedByValue_NoNegationCase(T, M, Limits) ==
    IF mag_representation_equals(T, T.lowest, M) THEN 1
    ELSE divide_by_mag(T,
                       IF IsPositive(M) THEN UpperLimit(T, Limits)
                       ELSE LowerLimit(T, Limits),
                       M)

HighestOfLimitsDividedByValue(T, M, Limits) ==
    IF mag_representation_equals(T, T.lowest, M) THEN 1
    ELSE IF M = Mag(-1, 1) /\ LowerLimit(T, Limits) = T.lowest THEN T.highest
    ELSE divide_by_mag(T,
                       IF IsPositive(M) THEN UpperLimit(T, Limits)
                       ELSE LowerLimit(T, Limits),
                       M)

\* SHOULD_CLAMP ? max : RELEVANT_LIMIT * ABS_DIVISOR, with
\* RELEVANT_BOUND = positive ? max / ABS_DIVISOR : -(lowest / ABS_DIVISOR).
ClampHighestWithDivisor(T, positive, RELEVANT_LIMIT, ABS_DIVISOR) ==
    IF (IF positive THEN TruncDiv(T.highest, ABS_DIVISOR)
        ELSE WrapTo(T, -TruncDiv(T.lowest, ABS_DIVISOR))) <= RELEVANT_LIMIT
    THEN T.highest
    ELSE WrapTo(T, RELEVANT_LIMIT * ABS_DIVISOR)

ClampHighestOfLimitsTimesInverseValueIfClampableIs(T, positive, RELEVANT_LIMIT, ABS_DIVISOR_RESULT) ==
    IF ABS_DIVISOR_RESULT.outcome = ERR_CANNOT_FIT THEN T.highest
    ELSE ClampHighestWithDivisor(T, positive, RELEVANT_LIMIT,
                                 IF ABS_DIVISOR_RESULT.outcome = OK
                                 THEN ABS_DIVISOR_RESULT.value ELSE 1)

\* With CommonVarsForClampHighest: RELEVANT_LIMIT and ABS_DIVISOR_RESULT.
ClampHighestOfLimitsTimesInverseValue(T, M, Limits) ==
    ClampHighestOfLimitsTimesInverseValueIfClampableIs(
        T, IsPositive(M),
        IF IsPositive(M) THEN UpperLimit(T, Limits)
        ELSE NegativeLowerLimit(T, Limits),
        get_value_result(T, MagInverseT(Abs(M))))

is_ok_or_err_cannot_fit(outcome) == outcome = OK \/ outcome = ERR_CANNOT_FIT

IsCompatibleApartFromMaybeOverflow(T, M) ==
    is_ok_or_err_cannot_fit(get_value_result(T, M).outcome)

abs_is_probably_bigger_than_one(T, M) ==
    \/ get_value_result(T, Abs(M)).outcome = ERR_CANNOT_FIT
    \/ get_value_result(T, Abs(M)).value >= 1

\* MinGood<MultiplyTypeBy<T, M>> cluster.
MinGoodImplForMultiplyCompatibleTypeBy(T, M) ==
    IF abs_is_probably_bigger_than_one(T, M)
    THEN "LowestOfLimitsDividedByValue"
    ELSE "ClampLowestOfLimitsTimesInverseValue"

MinGoodImplForMultiplyTypeByAssumingSigned(T, M) ==
    IF IsCompatibleApartFromMaybeOverflow(T, M)
    THEN MinGoodImplForMultiplyCompatibleTypeBy(T, M)
    ELSE "ValueIsZero"

MinGoodImplForMultiplyTypeByUsingRealPart(T, M) ==
    IF is_definitely_unsigned(T) THEN "ValueIsZero"
    ELSE MinGoodImplForMultiplyTypeByAssumingSigned(T, M)

\* MaxGood<MultiplyTypeBy<T, M>> cluster.
MaxGoodImplForMultiplyCompatibleTypeByNeitherIntNorInverseInt(T, M) ==
    IF abs_is_probably_bigger_than_one(T, M)
    THEN "HighestOfLimitsDividedByValue"
    ELSE "ClampHighestOfLimitsTimesInverseValue"

MaxGoodImplForMultiplyTypeByNeitherIntNorInverseInt(T, M) ==
    IF IsCompatibleApartFromMaybeOverflow(T, M)
    THEN MaxGoodImplForMultiplyCompatibleTypeByNeitherIntNorInverseInt(T, M)
    ELSE "ValueIsZero"

MaxGoodImplForMultiplyTypeByNonInteger(T, M) ==
    IF IsInteger(MagInverseT(M))
    THEN "ClampHighestOfLimitsTimesInverseValue"
    ELSE MaxGoodImplForMultiplyTypeByNeitherIntNorInverseInt(T, M)

MaxGoodImplForMultiplyTypeByAssumingSignedTypeOrPositiveFactor(T, M) ==
    IF IsInteger(M)
    THEN "HighestOfLimitsDividedByValue"
    ELSE MaxGoodImplForMultiplyTypeByNonInteger(T, M)

\* The dispatch without the branch for an unsigned type and a negative factor.
MaxGoodImplForMultiplyTypeByUsingRealPart_IgnoresSign(T, M) ==
    MaxGoodImplForMultiplyTypeByAssumingSignedTypeOrPositiveFactor(T, M)

MaxGoodImplForMultiplyTypeByUsingRealPart(T, M) ==
    IF is_definitely_unsigned(T) /\ ~IsPositive(M) THEN "ValueIsZero"
    ELSE MaxGoodImplForMultiplyTypeByAssumingSignedTypeOrPositiveFactor(T, M)

----------------------------------------------------------------------------
(* MinGood / MaxGood of an operation and of an OpSequence.                 *)

\* MinGoodImpl<Op, Limits> / MaxGoodImpl<Op, Limits>: the implementation type
\* selected for one op.
MinGoodImpl(op) ==
    IF op.kind = "StaticCast"
    THEN MinGoodImplForStaticCastUsingRealPart(op.T, op.U)
    ELSE MinGoodImplForMultiplyTypeByUsingRealPart(op.T, op.M)

MaxGoodImpl(op) ==
    IF op.kind = "StaticCast"
    THEN MaxGoodImplForStaticCastUsingRealPart(op.T, op.U)
    ELSE MaxGoodImplForMultiplyTypeByUsingRealPart(op.T, op.M)

\* Impl::value() of the selected implementation type.
ImplValue(impl, op, Limits) ==
    CASE impl = "ValueIsZero" -> ValueIsZero(op.T)
      [] impl = "ValueIsSourceLowestUnlessDestLimitIsHigher" ->
            ValueIsSourceLowestUnlessDestLimitIsHigher(op.T, op.U, Limits)
      [] impl = "ValueIsSourceHighestUnlessDestLimitIsLower" ->
            ValueIsSourceHighestUnlessDestLimitIsLower(op.T, op.U, Limits)
      [] impl = "ValueIsLowestInDestination" ->
            ValueIsLowestInDestination(op.T, op.U, Limits)
      [] impl = "ValueIsHighestInDestination" ->
            ValueIsHighestInDestination(op.T, op.U, Limits)
      [] impl = "ValueIsMaxFloatNotExceedingMaxInt" ->
            ValueIsMaxFloatNotExceedingMaxInt(op.T, op.U, Limits)
      [] impl = "LowestOfLimitsDividedByValue" ->
            LowestOfLimitsDividedByValue(op.T, op.M, Limits)
      [] impl = "ClampLowestOfLimitsTimesInverseValue" ->
            ClampLowestOfLimitsTimesInverseValue(op.T, op.M, Limits)
      [] impl = "HighestOfLimitsDividedByValue" ->
            HighestOfLimitsDividedByValue(op.T, op.M, Limits)
      [] impl = "ClampHighestOfLimitsTimesInverseValue" ->
            ClampHighestOfLimitsTimesInverseValue(op.T, op.M, Limits)
      [] OTHER -> 0

\* Whether the selected implementation type compiles: no static_assert fails
\* and no conversion in a constant expression is undefined.
ImplCompiles(impl, op, Limits) ==
    CASE impl = "OverflowBoundaryNotYetImplemented" -> FALSE
      [] impl = "ValueIsLowestInDestination" ->
            LosslessRoundTrip(op.T, op.U, LowerLimit(op.U, Limits))
      [] impl = "ValueIsHighestInDestination" ->
            LosslessRoundTrip(op.T, op.U, UpperLimit(op.U, Limits))
      [] impl = "ValueIsSourceLowestUnlessDestLimitIsHigher" ->
            StaticCastValue(op.T, op.U, op.T.lowest) <= LowerLimit(op.U, Limits)
                => StaticCastIsDefined(op.U, op.T, LowerLimit(op.U, Limits))
      [] impl = "ValueIsSourceHighestUnlessDestLimitIsLower" ->
            StaticCastValue(op.T, op.U, op.T.highest) >= UpperLimit(op.U, Limits)
                => StaticCastIsDefined(op.U, op.T, UpperLimit(op.U, Limits))
      [] OTHER -> TRUE

RECURSIVE MinGood(_, _), MaxGood(_, _)

\* LimitsFor<Op, Limits>: the bounds of a suffix, as Limits for the op before it.
LimitsFor(s, Limits) == MakeLimits(MinGood(s, Limits), MaxGood(s, Limits))

\* The Limits under which the first op of a sequence is analysed: the caller's
\* for a lone op, else those synthesized from the rest of the sequence.
\* The caller's Limits handed to the first op as they are.
LimitsForFirstOp_CallersLimits(s, Limits) == Limits

LimitsForFirstOp(s, Limits) ==
    IF Len(s) = 1 THEN Limits ELSE LimitsFor(Tail(s), Limits)

MinGood(s, Limits) ==
    ImplValue(MinGoodImpl(s[1]), s[1], LimitsForFirstOp(s, Limits))

MaxGood(s, Limits) ==
    ImplValue(MaxGoodImpl(s[1]), s[1], LimitsForFirstOp(s, Limits))

\* The members of Limits that the value() of an implementation type names:
\* Limits::lower() through LowerLimit, Limits::upper() through UpperLimit.
UsesLowerLimit(impl) ==
    impl \in {"ValueIsSourceLowestUnlessDestLimitIsHigher", "ValueIsLowestInDestination",
              "LowestOfLimitsDividedByValue", "ClampLowestOfLimitsTimesInverseValue",
              "HighestOfLimitsDividedByValue", "ClampHighestOfLimitsTimesInverseValue"}

UsesUpperLimit(impl) ==
    impl \in {"ValueIsSourceHighestUnlessDestLimitIsLower", "ValueIsHighestInDestination",
              "ValueIsMaxFloatNotExceedingMaxInt",
              "LowestOfLimitsDividedByValue", "ClampLowestOfLimitsTimesInverseValue",
              "HighestOfLimitsDividedByValue", "ClampHighestOfLimitsTimesInverseValue"}

RECURSIVE MinGoodCompiles(_, _), MaxGoodCompiles(_, _)

\* The static_assert of the OpSequence specializations on the first two ops.
\* The rest of the sequence is only named, as the argument of LimitsFor: its
\* own analysis is instantiated when the implementation type of the first op
\* calls LimitsFor::lower() or LimitsFor::upper(), and not otherwise.
RestCompiles(impl, s, Limits) ==
    Len(s) > 1 =>
        /\ OpOutput(s[1]) = OpInput(s[2])
        /\ UsesLowerLimit(impl) => MinGoodCompiles(Tail(s), Limits)
        /\ UsesUpperLimit(impl) => MaxGoodCompiles(Tail(s), Limits)

\* Whether MinGood<Op, Limits>::value() compiles.
MinGoodCompiles(s, Limits) ==
    /\ RestCompiles(MinGoodImpl(s[1]), s, Limits)
    /\ ImplCompiles(MinGoodImpl(s[1]), s[1], LimitsForFirstOp(s, Limits))

\* Whether MaxGood<Op, Limits>::value() compiles.
MaxGoodCompiles(s, Limits) ==
    /\ RestCompiles(MaxGoodImpl(s[1]), s, Limits)
    /\ ImplCompiles(MaxGoodImpl(s[1]), s[1], LimitsForFirstOp(s, Limits))

\* Whether both bounds of the operation compile.
BoundaryCompiles(s, Limits) == MinGoodCompiles(s, Limits) /\ MaxGoodCompiles(s, Limits)

MinPossible(s) ==
    LowestOfLimitsDividedByValue(OpSequenceInput(s), Mag(1, 1), NoLimits)

MaxPossible(s) ==
    HighestOfLimitsDividedByValue(OpSequenceInput(s), Mag(1, 1), NoLimits)

\* The comparison against the lowest possible input made non-strict.
CanOverflowBelow_NonStrict(s) == MinGood(s, NoLimits) >= MinPossible(s)

CanOverflowBelow(s) == MinGood(s, NoLimits) > MinPossible(s)

CanOverflowAbove(s) == MaxGood(s, NoLimits) < MaxPossible(s)

\* MinValueChecker<Op>::is_too_small and MaxValueChecker<Op>::is_too_large.
is_too_small(s, v) ==
    IF CanOverflowBelow(s) THEN v < MinGood(s, NoLimits) ELSE FALSE

\* The comparison against MaxGood made inclusive.
is_too_large_Inclusive(s, v) ==
    IF CanOverflowAbove(s) THEN v >= MaxGood(s, NoLimits) ELSE FALSE

is_too_large(s, v) ==
    IF CanOverflowAbove(s) THEN v > MaxGood(s, NoLimits) ELSE FALSE

would_input_produce_overflow(s, v) == is_too_small(s, v) \/ is_too_large(s, v)

----------------------------------------------------------------------------
(* Building a conversion: ConversionForRepsAndFactor.  An operation is     *)
(* the sequence of its primitive ops; an OpSequence that holds another     *)
(* OpSequence has the input, the output and the primitive ops, in order,   *)
(* of the sequence written out flat.                                       *)

DEFAULT == "DEFAULT"
NONTRIVIAL_RATIONAL == "NONTRIVIAL_RATIONAL"

\* The test of the inverse dropped.
mag_kind_for_IgnoresInverse(M) ==
    IF IsInteger(M) \/ ~IsRational(M) THEN DEFAULT ELSE NONTRIVIAL_RATIONAL

mag_kind_for(M) ==
    IF IsInteger(M) \/ IsInteger(MagInverseT(M)) \/ ~IsRational(M)
    THEN DEFAULT
    ELSE NONTRIVIAL_RATIONAL

ApplicationStrategyFor(T, M) ==
    IF mag_kind_for(M) = NONTRIVIAL_RATIONAL /\ is_integral(T)
    THEN <<MultiplyTypeBy(T, NumeratorT(M)), DivideTypeBy(T, DenominatorT(M))>>
    ELSE <<MultiplyTypeBy(T, M)>>

\* Every conversion built with both casts.
FullConversionImpl_AlwaysCasts(OldRep, PromotedCommon, NewRep, Factor) ==
    <<StaticCast(OldRep, PromotedCommon)>> \o ApplicationStrategyFor(PromotedCommon, Factor) \o <<StaticCast(PromotedCommon, NewRep)>>

FullConversionImpl(OldRep, PromotedCommon, NewRep, Factor) ==
    IF OldRep = PromotedCommon /\ NewRep = PromotedCommon
    THEN ApplicationStrategyFor(PromotedCommon, Factor)
    ELSE IF OldRep = PromotedCommon
    THEN ApplicationStrategyFor(PromotedCommon, Factor) \o <<StaticCast(PromotedCommon, NewRep)>>
    ELSE IF NewRep = PromotedCommon
    THEN <<StaticCast(OldRep, PromotedCommon)>> \o ApplicationStrategyFor(PromotedCommon, Factor)
    ELSE <<StaticCast(OldRep, PromotedCommon)>> \o ApplicationStrategyFor(PromotedCommon, Factor) \o <<StaticCast(PromotedCommon, NewRep)>>

ConversionForRepsAndFactor(OldRep, NewRep, Factor) ==
    FullConversionImpl(OldRep, PromotedType(common_type_t(OldRep, NewRep)), NewRep, Factor)

----------------------------------------------------------------------------
(* Truncation risk: the input values an operation may fail to carry        *)
(* exactly, as a descriptor tagged with the input representation.          *)

\* The operation a descriptor carries: a lone op (depth 0), an OpSequence of
\* ops (depth 1), or an OpSequence that holds an OpSequence (depth 2 and up).
NoOp == [depth |-> 0, ops |-> <<>>]
LoneOp(op) == [depth |-> 0, ops |-> <<op>>]

Void == [name |-> "void", kind |-> "void", size |-> 0, lowest |-> 0, highest |-> 0, digits |-> 0]

NoTruncationRisk(T) == [kind |-> "NoTruncationRisk", T |-> T, M |-> Mag(1, 1), Op |-> NoOp]

ValueIsNotZero(T) == [kind |-> "ValueIsNotZero", T |-> T, M |-> Mag(1, 1), Op |-> NoOp]

ValueTimesRatioIsNotInteger(T, M) == [kind |-> "ValueTimesRatioIsNotInteger", T |-> T, M |-> M, Op |-> NoOp]

ValueIsNotInteger(T) == ValueTimesRatioIsNotInteger(T, Mag(1, 1))

CannotAssessTruncationRiskFor(T, Op) == [kind |-> "CannotAssessTruncationRiskFor", T |-> T, M |-> Mag(1, 1), Op |-> Op]

\* TruncationRiskForImpl<StaticCast<T, U>> cluster.
\* The test of the source representation dropped.
TruncationRiskForStaticCastFromArithmeticToArithmetic_AnySource(T, U) ==
    IF is_integral(U) THEN ValueIsNotInteger(T) ELSE NoTruncationRisk(T)

TruncationRiskForStaticCastFromArithmeticToArithmetic(T, U) ==
    IF is_floating_point(T) /\ is_integral(U)
    THEN ValueIsNotInteger(T)
    ELSE NoTruncationRisk(T)

TruncationRiskForStaticCastFromArithmetic(T, U) ==
    IF is_arithmetic(U)
    THEN TruncationRiskForStaticCastFromArithmeticToArithmetic(T, U)
    ELSE CannotAssessTruncationRiskFor(T, LoneOp(StaticCast(T, U)))

TruncationRiskForStaticCastFromNonArithmetic(T, U) ==
    CannotAssessTruncationRiskFor(T, LoneOp(StaticCast(T, U)))

TruncationRiskForStaticCast(T, U) ==
    IF is_arithmetic(T)
    THEN TruncationRiskForStaticCastFromArithmetic(T, U)
    ELSE TruncationRiskForStaticCastFromNonArithmetic(T, U)

\* TruncationRiskForImpl<MultiplyTypeBy<T, M>> cluster.
TruncationRiskForMultiplyArithmeticByIrrational(T, M) ==
    IF is_integral(T) THEN ValueIsNotZero(T) ELSE NoTruncationRisk(T)

TruncationRiskForMultiplyNonArithmeticByIrrational(T, M) ==
    CannotAssessTruncationRiskFor(T, LoneOp(MultiplyTypeBy(T, M)))

TruncationRiskForMultiplyNonArithmeticByRational(T, M) ==
    CannotAssessTruncationRiskFor(T, LoneOp(MultiplyTypeBy(T, M)))

TruncationRiskForMultiplyByIrrational(T, M) ==
    IF is_arithmetic(T)
    THEN TruncationRiskForMultiplyArithmeticByIrrational(T, M)
    ELSE TruncationRiskForMultiplyNonArithmeticByIrrational(T, M)

\* The test of the representation dropped.
TruncationRiskForMultiplyArithmeticByRational_IgnoresFloatingPoint(T, M) ==
    IF IsInteger(M) THEN NoTruncationRisk(T) ELSE ValueTimesRatioIsNotInteger(T, M)

TruncationRiskForMultiplyArithmeticByRational(T, M) ==
    IF IsInteger(M) \/ is_floating_point(T)
    THEN NoTruncationRisk(T)
    ELSE ValueTimesRatioIsNotInteger(T, M)

\* An integer factor taken to carry no risk before the representation is
\* looked at.
TruncationRiskForMultiplyByRational_IntegerFirst(T, M) ==
    IF IsInteger(M) THEN NoTruncationRisk(T)
    ELSE IF is_arithmetic(T)
         THEN TruncationRiskForMultiplyArithmeticByRational(T, M)
         ELSE TruncationRiskForMultiplyNonArithmeticByRational(T, M)

TruncationRiskForMultiplyByRational(T, M) ==
    IF is_arithmetic(T)
    THEN TruncationRiskForMultiplyArithmeticByRational(T, M)
    ELSE TruncationRiskForMultiplyNonArithmeticByRational(T, M)

TruncationRiskForMultiplyTypeBy(T, M) ==
    IF IsRational(M)
    THEN TruncationRiskForMultiplyByRational(T, M)
    ELSE TruncationRiskForMultiplyByIrrational(T, M)

TruncationRiskForImpl(op) ==
    IF op.kind = "StaticCast"
    THEN TruncationRiskForStaticCast(op.T, op.U)
    ELSE TruncationRiskForMultiplyTypeBy(op.T, op.M)

\* TruncationRiskForImpl of a sequence of two or more ops is an empty struct:
\* it has no nested type, and naming TruncationRiskFor of it does not compile.
NoNestedType == [kind |-> "no nested type", T |-> Void, M |-> Mag(1, 1), Op |-> NoOp]

\* TruncationRiskFor<Op>; an OpSequence of one op has the risk of that op.
TruncationRiskFor(s) ==
    IF Len(s) = 1 THEN TruncationRiskForImpl(s[1]) ELSE NoNestedType

\* PrependToOpSequence<Op1, Op2>: a lone Op2 becomes OpSequence<Op1, Op2>; of
\* an OpSequence<Ops...>, the specialization makes OpSequence<Op1, Ops...>.
\* The old sequence kept as one op of the new one.
PrependToOpSequence_Nested(op1, Op2) == [depth |-> Op2.depth + 1, ops |-> <<op1>> \o Op2.ops]

PrependToOpSequence(op1, Op2) ==
    IF Op2.depth = 0
    THEN [depth |-> 1, ops |-> <<op1>> \o Op2.ops]
    ELSE [depth |-> Op2.depth, ops |-> <<op1>> \o Op2.ops]

ReduceValueTimesRatioIsNotInteger(T, M) ==
    IF IsInteger(M) /\ is_integral(T)
    THEN NoTruncationRisk(T)
    ELSE ValueTimesRatioIsNotInteger(T, M)

\* The risk templates of one parameter, which `template <class> class Risk`
\* matches.
IsRiskOfOneParameter(Risk) == Risk.kind \in {"NoTruncationRisk", "ValueIsNotZero"}

\* UpdateRiskImpl<StaticCast<T, U>, Risk<U>>.
UpdateRiskThroughStaticCast(T, U, Risk) == [Risk EXCEPT !.T = T]

\* The ratio risk re-tagged whatever the source representation.
UpdateRatioRiskThroughStaticCast_Retagged(T, U, M) == ValueTimesRatioIsNotInteger(T, M)

\* UpdateRiskImpl<StaticCast<T, U>, ValueTimesRatioIsNotInteger<U, M>>.
UpdateRatioRiskThroughStaticCast(T, U, M) ==
    IF IsInteger(M) /\ is_integral(T)
    THEN NoTruncationRisk(T)
    ELSE ReduceValueTimesRatioIsNotInteger(T, M)

\* UpdateRiskImpl<MultiplyTypeBy<T, M>, Risk<T>>.
UpdateRiskThroughMultiplyTypeBy(T, M, Risk) == Risk

\* The downstream ratio kept as it is through a rational scale.
UpdateRatioRiskThroughMultiplyTypeBy_KeepsRatio(T, M1, M2) ==
    IF IsRational(M1) THEN ReduceValueTimesRatioIsNotInteger(T, M2) ELSE ValueIsNotZero(T)

\* UpdateRiskImpl<MultiplyTypeBy<T, M1>, ValueTimesRatioIsNotInteger<T, M2>>.
UpdateRatioRiskThroughMultiplyTypeBy(T, M1, M2) ==
    IF IsRational(M1)
    THEN ReduceValueTimesRatioIsNotInteger(T, MagProductT(M1, M2))
    ELSE ValueIsNotZero(T)

\* UpdateRiskImpl<Op, CannotAssessTruncationRiskFor<OpOutput<Op>, OldOp>>.
UpdateCannotAssess(op, OldOp) ==
    CannotAssessTruncationRiskFor(OpInput(op), PrependToOpSequence(op, OldOp))

\* UpdateRisk<Op, Risk>: the specialization of UpdateRiskImpl that matches.
\* The primary template is only declared, so that UpdateRisk of a Risk that is
\* tagged with another representation than OpOutput<Op> does not compile.
UpdateRisk(op, Risk) ==
    IF Risk.T # OpOutput(op) THEN NoNestedType
    ELSE IF Risk.kind = "CannotAssessTruncationRiskFor" THEN UpdateCannotAssess(op, Risk.Op)
    ELSE IF op.kind = "StaticCast" /\ IsRiskOfOneParameter(Risk) THEN UpdateRiskThroughStaticCast(op.T, op.U, Risk)
    ELSE IF op.kind = "StaticCast" /\ Risk.kind = "ValueTimesRatioIsNotInteger" THEN UpdateRatioRiskThroughStaticCast(op.T, op.U, Risk.M)
    ELSE IF op.kind = "MultiplyTypeBy" /\ IsRiskOfOneParameter(Risk) THEN UpdateRiskThroughMultiplyTypeBy(op.T, op.M, Risk)
    ELSE IF op.kind = "MultiplyTypeBy" /\ Risk.kind = "ValueTimesRatioIsNotInteger" THEN UpdateRatioRiskThroughMultiplyTypeBy(op.T, op.M, Risk.M)
    ELSE NoNestedType

----------------------------------------------------------------------------
(* Applying an operation to a runtime value.                               *)

\* MultiplyTypeBy<T, M>::apply_to exists when the multiplier (MULTIPLY) has a
\* value in T: get_value<T>(M) does not compile otherwise.  Division by an
\* integer too big for T is defined, and yields zero.
CanApply(op) ==
    IF op.kind = "StaticCast" THEN TRUE
    ELSE IF approach_for_multiplying_by_mag(op.M) = DIVIDE_BY_INVERSE THEN TRUE
    ELSE get_value_result(op.T, op.M).outcome = OK

\* static_cast<T>(value * get_value<T>(M)), the product taken in int.
\* The product returned as the int it is computed in.
MultiplyByRepresentationInType_Promoted(T, M, v) ==
    v * get_value_result(T, M).value

MultiplyByRepresentationInType(T, M, v) ==
    WrapTo(T, v * get_value_result(T, M).value)

\* DivideTypeByInt<T, Divisor, outcome>::apply_to.
\* The quotient rounded toward minus infinity.
DivideTypeByInt_Floored(T, Divisor, v) ==
    IF get_value_result(T, Divisor).outcome = ERR_CANNOT_FIT THEN 0
    ELSE IF TruncDiv(v, Divisor.num) * Divisor.num # v /\ ((v < 0) # (Divisor.num < 0))
         THEN WrapTo(T, TruncDiv(v, Divisor.num) - 1)
         ELSE WrapTo(T, TruncDiv(v, Divisor.num))

DivideTypeByInt(T, Divisor, v) ==
    IF get_value_result(T, Divisor).outcome = ERR_CANNOT_FIT THEN 0
    ELSE WrapTo(T, TruncDiv(v, get_value_result(T, Divisor).value))

\* Op::apply_to(v), where the conversion is defined.
\* Every scale applied by multiplication.
apply_to_AlwaysMultiplies(op, v) ==
    IF op.kind = "StaticCast" THEN StaticCastValue(op.T, op.U, v)
    ELSE MultiplyByRepresentationInType(op.T, op.M, v)

apply_to(op, v) ==
    IF op.kind = "StaticCast" THEN StaticCastValue(op.T, op.U, v)
    ELSE IF approach_for_multiplying_by_mag(op.M) = DIVIDE_BY_INVERSE
         THEN DivideTypeByInt(op.T, MagInverseT(op.M), v)
         ELSE MultiplyByRepresentationInType(op.T, op.M, v)

\* Whether the exact result of the op on v (for a division, the exact quotient
\* truncated toward zero) lies outside the output type.
Overflows(op, v) ==
    IF op.kind = "StaticCast"
    THEN IF is_floating_point(op.U) THEN FALSE ELSE ~InRange(op.U, v)
    ELSE IF approach_for_multiplying_by_mag(op.M) = DIVIDE_BY_INVERSE
         THEN ~InRange(op.T, TruncDiv(v, MagInverseT(op.M).num))
         ELSE ~InRange(op.T, v * get_value_result(op.T, op.M).value)

\* The values the build can produce.  Converting a floating point value that
\* is outside the range of the integer destination is undefined: the result
\* is any value of the destination type, here one of three.
ApplyOutcomes(op, v) ==
    IF op.kind = "StaticCast" /\ ~StaticCastIsDefined(op.T, op.U, v)
    THEN {op.U.lowest, 0, op.U.highest}
    ELSE {apply_to(op, v)}

----------------------------------------------------------------------------
(* The inputs explored.                                                    *)

\* The representable neighbours of a floating point value.
FloatAbove(F, a) ==
    IF a + 1 < Pow2(F.digits) THEN a + 1 ELSE a + Pow2(BitLen(a) - F.digits)

FloatBelow(F, a) ==
    IF a <= Pow2(F.digits) THEN a - 1 ELSE a - Pow2(BitLen(a - 1) - F.digits)

NextAbove(T, v) ==
    IF is_integral(T) THEN v + 1
    ELSE IF v >= 0 THEN FloatAbove(T, v) ELSE -FloatBelow(T, -v)

NextBelow(T, v) ==
    IF is_integral(T) THEN v - 1
    ELSE IF v > 0 THEN FloatBelow(T, v) ELSE -FloatAbove(T, -v)

RECURSIVE Around(_, _, _)
Around(T, vs, k) ==
    IF k = 0 THEN vs
    ELSE Around(T, vs \cup {NextAbove(T, v) : v \in vs}
                      \cup {NextBelow(T, v) : v \in vs}, k - 1)

\* Every value of an 8-bit type; of a wider type, the values within Probe
\* steps of a landmark.
Inputs(T, landmarks) ==
    IF T \in ByteTypes THEN T.lowest .. T.highest
    ELSE {v \in Around(T, {0, T.lowest, T.highest} \cup landmarks, Probe) :
              InRange(T, v)}

\* Scale factors: the small integers and their inverses, of both signs, and
\* for the 8-bit types the factors at and just past the type's extremes.
SmallFactors ==
    {Mag(n, 1) : n \in 1 .. MaxFactor} \cup {Mag(-n, 1) : n \in 1 .. MaxFactor}
    \cup {Mag(1, n) : n \in 2 .. MaxFactor} \cup {Mag(-1, n) : n \in 2 .. MaxFactor}

EdgeFactors(T) ==
    IF T \in ByteTypes
    THEN {Mag(T.highest, 1), Mag(-T.highest - 1, 1), Mag(T.highest + 1, 1),
          Mag(1, T.highest), Mag(1, T.highest + 1)}
    ELSE {}

Factors(T) == SmallFactors \cup EdgeFactors(T)

\* Limits on a representation U: absent, or lower <= 0 <= upper in U.
LowerLimits(U) ==
    {RoundToFloat(U, TruncDiv(U.lowest, k)) : k \in 1 .. MaxLimitDiv}
    \cup {v \in {-j : j \in 0 .. MaxLimitAbs} : InRange(U, v)}

UpperLimits(U) ==
    {RoundToFloat(U, TruncDiv(U.highest, k)) : k \in 1 .. MaxLimitDiv} \cup 0 .. MaxLimitAbs

LimitsOn(U) ==
    {NoLimits} \cup {MakeLimits(lo, hi) : lo \in LowerLimits(U), hi \in UpperLimits(U)}

ScaleOps == UNION {{<<MultiplyTypeBy(T, M)>> : M \in Factors(T)} : T \in IntegerTypes}

CastOps == {<<StaticCast(T, U)>> : T \in ArithmeticTypes, U \in ArithmeticTypes}

\* Sequences over the integer representations: every pair of ops (a pair
\* whose types do not agree is rejected when it is analysed), and the three-op
\* shape of a conversion between 8-bit types through a wider one.
IntegerCasts == {StaticCast(T, U) : T \in IntegerTypes, U \in IntegerTypes}
IntegerScales == UNION {{MultiplyTypeBy(T, M) : M \in Factors(T)} : T \in IntegerTypes}
IntegerOps == IntegerCasts \cup IntegerScales

SeqOps ==
    {<<a, b>> : a \in IntegerOps, b \in IntegerOps} \cup
    {<<StaticCast(T, Int16), MultiplyTypeBy(Int16, M), StaticCast(Int16, T)>> :
        T \in ByteTypes, M \in SmallFactors}

\* The operations whose truncation risk is classified: casts and scales on
\* every representation, the non-arithmetic one included, by integer,
\* rational and irrational factors.
CoprimePairs == {p \in (1 .. MaxFactor) \X (1 .. MaxFactor) : GCD(p[1], p[2]) = 1}

Ratios == {Mag(p[1], p[2]) : p \in CoprimePairs} \cup {Mag(-p[1], p[2]) : p \in CoprimePairs}

Irrationals == {PI, MagInverseT(PI), [PI EXCEPT !.num = -1], [PI EXCEPT !.den = 2]}

RiskTypes == ArithmeticTypes \cup {NonArithmetic}

RiskOps ==
    {<<StaticCast(T, U)>> : T \in RiskTypes, U \in RiskTypes} \cup
    UNION {{<<MultiplyTypeBy(T, M)>> : M \in Factors(T) \cup Ratios \cup Irrationals} : T \in RiskTypes}

\* A scale of an integer representation by an integer, followed or preceded
\* by the scale by its inverse.
IntegerFactors(T) == {M \in Factors(T) : IsInteger(M)}

RoundTripOps ==
    UNION {{<<MultiplyTypeBy(T, M), DivideTypeBy(T, M)>> : M \in IntegerFactors(T)} : T \in IntegerTypes}
    \cup
    UNION {{<<DivideTypeBy(T, M), MultiplyTypeBy(T, M)>> : M \in IntegerFactors(T)} : T \in IntegerTypes}

\* The downstream risks handed to UpdateRisk: every kind, tagged with U; a
\* risk that cannot be assessed carries a lone op or a sequence of ops.
Residuals(U) ==
    {LoneOp(StaticCast(U, NonArithmetic)),
     [depth |-> 1, ops |-> <<MultiplyTypeBy(U, Mag(2, 1)), StaticCast(U, NonArithmetic)>>]}

DownstreamRisks(U) ==
    {NoTruncationRisk(U), ValueIsNotZero(U)}
    \cup {ValueTimesRatioIsNotInteger(U, M) : M \in Ratios \cup Irrationals}
    \cup {CannotAssessTruncationRiskFor(U, R) : R \in Residuals(U)}

\* Sequences analysed under a caller's Limits: ops of the 16-bit
\* representations (casts, and scales by the small integers and halves), in
\* pairs and in threes, and lone ops.
WordTypes == {Int16, UInt16}

WordFactors == {M \in SmallFactors : M.den <= 2}

WordOps ==
    {StaticCast(T, U) : T \in WordTypes, U \in IntegerTypes} \cup
    {MultiplyTypeBy(T, M) : T \in WordTypes, M \in WordFactors}

\* Operations that are not well formed: a cast from or to a representation
\* that is not arithmetic, alone and behind another op, and three-op sequences
\* whose last two ops do not agree.
LeadingWordOps == {StaticCast(UInt16, UInt16)} \cup {MultiplyTypeBy(UInt16, M) : M \in WordFactors}

MalformedOps ==
    {<<StaticCast(T, NonArithmetic)>> : T \in WordTypes} \cup
    {<<StaticCast(NonArithmetic, T)>> : T \in WordTypes} \cup
    {<<a, StaticCast(UInt16, NonArithmetic)>> : a \in LeadingWordOps} \cup
    {<<a, StaticCast(UInt16, Int8), StaticCast(Int16, Int8)>> : a \in LeadingWordOps}

LimitedSeqOps ==
    {<<a>> : a \in WordOps} \cup
    {<<a, b>> : a \in WordOps, b \in WordOps} \cup
    {<<StaticCast(Int16, UInt16), MultiplyTypeBy(UInt16, M), StaticCast(UInt16, Int16)>> : M \in SmallFactors} \cup
    MalformedOps

\* The conversions asked for: between every two arithmetic representations,
\* int included, by integer, rational and irrational factors.
BuildTypes == ArithmeticTypes \cup {Int32}

Requests == [OldRep : BuildTypes, NewRep : BuildTypes, Factor : Ratios \cup Irrationals]

\* The operations whose overflow boundary is modelled: casts, and scales of
\* the integer representations.
RECURSIVE BoundaryModelled(_)
BoundaryModelled(s) ==
    IF s = <<>> THEN TRUE
    ELSE IF s[1].kind = "MultiplyTypeBy" /\ ~is_integral(s[1].T) THEN FALSE
    ELSE BoundaryModelled(Tail(s))

----------------------------------------------------------------------------
(* The state machine.                                                      *)

\* A boundary result that is a concrete value of the input representation.
ConcreteValue(v) == [kind |-> "value", value |-> v]
NotComputed == [kind |-> "none", value |-> 0]

\* TruncationRiskFor<Op> has not been instantiated.
NotAssessed == [kind |-> "none", T |-> Void, M |-> Mag(1, 1), Op |-> NoOp]

\* ConversionForRepsAndFactor is not asked for: the operation is given.
NoRequest == [OldRep |-> Void, NewRep |-> Void, Factor |-> Mag(1, 1)]

\* Nothing has been analysed, assessed or run.
NothingDone ==
    /\ phase = "defined"
    /\ minGood = NotComputed
    /\ maxGood = NotComputed
    /\ canBelow = FALSE
    /\ canAbove = FALSE
    /\ x = 0
    /\ tooSmall = FALSE
    /\ tooLarge = FALSE
    /\ idx = 0
    /\ val = 0
    /\ overflowed = FALSE
    /\ risk = NotAssessed

InitWith(opsSet, withLimits) ==
    /\ ops \in opsSet
    /\ limits \in IF withLimits THEN LimitsOn(OpSequenceOutput(ops)) ELSE {NoLimits}
    /\ NothingDone
    /\ downstream = NotAssessed
    /\ request = NoRequest

\* A conversion is asked for: there is no operation yet.
InitBuild ==
    /\ ops = <<>>
    /\ limits = NoLimits
    /\ NothingDone
    /\ downstream = NotAssessed
    /\ request \in Requests

\* An op and a downstream Risk are given to UpdateRisk.
InitUpdate ==
    /\ ops \in RiskOps
    /\ limits = NoLimits
    /\ NothingDone
    /\ downstream \in UNION {DownstreamRisks(U) : U \in RiskTypes}
    /\ request = NoRequest

\* Definition time: the boundary analysis of the operation is instantiated.
\* It yields MinGood / MaxGood under the caller's Limits and the CanOverflow
\* flags of the run-time checkers, or it fails to compile.
Analyze ==
    /\ phase = "defined"
    /\ BoundaryModelled(ops)
    /\ IF BoundaryCompiles(ops, limits) /\ BoundaryCompiles(ops, NoLimits)
       THEN /\ phase' = "analyzed"
            /\ minGood' = ConcreteValue(MinGood(ops, limits))
            /\ maxGood' = ConcreteValue(MaxGood(ops, limits))
            /\ canBelow' = CanOverflowBelow(ops)
            /\ canAbove' = CanOverflowAbove(ops)
       ELSE /\ phase' = "rejected"
            /\ UNCHANGED <<minGood, maxGood, canBelow, canAbove>>
    /\ UNCHANGED <<ops, limits, x, tooSmall, tooLarge, idx, val, overflowed, risk, downstream, request>>

\* Run time: would_input_produce_overflow on an input value.
CheckInput ==
    /\ phase = "analyzed"
    /\ \E v \in Inputs(OpSequenceInput(ops),
                       {minGood.value, maxGood.value,
                        MinGood(ops, NoLimits), MaxGood(ops, NoLimits)}) :
          /\ x' = v
          /\ val' = v
          /\ tooSmall' = is_too_small(ops, v)
          /\ tooLarge' = is_too_large(ops, v)
    /\ phase' = "checked"
    /\ UNCHANGED <<ops, limits, minGood, maxGood, canBelow, canAbove, idx, overflowed, risk, downstream, request>>

\* Run time: OpSequence::apply_to, one op at a time.
ApplyOp ==
    /\ phase \in {"checked", "applying"}
    /\ idx < Len(ops)
    /\ CanApply(ops[idx + 1])
    /\ \E r \in ApplyOutcomes(ops[idx + 1], val) : val' = r
    /\ overflowed' = (overflowed \/ Overflows(ops[idx + 1], val))
    /\ idx' = idx + 1
    /\ phase' = IF idx + 1 = Len(ops) THEN "done" ELSE "applying"
    /\ UNCHANGED <<ops, limits, minGood, maxGood, canBelow, canAbove,
                   x, tooSmall, tooLarge, risk, downstream, request>>

\* Definition time: the truncation risk of the operation is instantiated.
\* It is independent of the boundary analysis and of any run-time value.
AssessRisk ==
    /\ risk = NotAssessed
    /\ risk' = TruncationRiskFor(ops)
    /\ UNCHANGED <<ops, limits, phase, minGood, maxGood, canBelow, canAbove,
                   x, tooSmall, tooLarge, idx, val, overflowed, downstream, request>>

Next == Analyze \/ CheckInput \/ ApplyOp \/ AssessRisk

\* Definition time: UpdateRisk<Op, Risk> is instantiated for the op and the
\* downstream risk given.
ApplyUpdateRisk ==
    /\ downstream # NotAssessed
    /\ risk = NotAssessed
    /\ risk' = UpdateRisk(ops[1], downstream)
    /\ UNCHANGED <<ops, limits, phase, minGood, maxGood, canBelow, canAbove,
                   x, tooSmall, tooLarge, idx, val, overflowed, downstream, request>>

NextUpdate == ApplyUpdateRisk

\* Definition time: ConversionForRepsAndFactor is instantiated for the
\* representations and the factor asked for.
BuildConversion ==
    /\ request # NoRequest
    /\ ops = <<>>
    /\ ops' = ConversionForRepsAndFactor(request.OldRep, request.NewRep, request.Factor)
    /\ UNCHANGED <<limits, phase, minGood, maxGood, canBelow, canAbove,
                   x, tooSmall, tooLarge, idx, val, overflowed, risk, downstream, request>>

NextBuild == BuildConversion

\* Single ops under every Limits; sequences under the Limits of the run-time
\* guard, which are absent.
InitScale == InitWith(ScaleOps, TRUE)
InitCast  == InitWith(CastOps, TRUE)
InitSeq   == InitWith(SeqOps, FALSE)
InitRisk  == InitWith(RiskOps, FALSE)
InitRoundTrip == InitWith(RoundTripOps, FALSE)
InitPropagate == InitWith(LimitedSeqOps, TRUE)
Init      == InitWith(ScaleOps \cup CastOps, TRUE)

Spec      == Init /\ [][Next]_vars
SpecScale == InitScale /\ [][Next]_vars
SpecCast  == InitCast /\ [][Next]_vars
SpecSeq   == InitSeq /\ [][Next]_vars
SpecRisk  == InitRisk /\ [][Next]_vars
SpecRoundTrip == InitRoundTrip /\ [][Next]_vars
SpecPropagate == InitPropagate /\ [][Next]_vars
SpecUpdate == InitUpdate /\ [][NextUpdate]_vars
SpecBuild == InitBuild /\ [][NextBuild]_vars

----------------------------------------------------------------------------
(* Vocabulary of the properties.                                           *)

Analyzed  == phase \in {"analyzed", "checked", "applying", "done"}
HasInput  == phase \in {"checked", "applying", "done"}
SingleOp  == Len(ops) = 1
IsScale   == SingleOp /\ ops[1].kind = "MultiplyTypeBy"
IsCast    == SingleOp /\ ops[1].kind = "StaticCast"
InT       == OpSequenceInput(ops)
OutT      == OpSequenceOutput(ops)
Unlimited == limits = NoLimits

\* x lies within the bounds computed under the caller's Limits.
WithinBounds == minGood.value <= x /\ x <= maxGood.value

\* The final value respects the caller's Limits.
WithinLimits ==
    LowerLimit(OutT, limits) <= val /\ val <= UpperLimit(OutT, limits)

\* C1: every in-bounds input of a Scale on an integer representation gives a
\* product inside the representation's range and inside the Limits.
C1_ScaleBoundsSound ==
    (phase = "done" /\ IsScale /\ is_integral(InT) /\ WithinBounds)
        => (~overflowed /\ WithinLimits)

\* C2: every in-bounds input of a Cast between arithmetic representations
\* converts to a value inside the destination's range and inside the Limits.
C2_CastBoundsSound ==
    (phase = "done" /\ IsCast /\ WithinBounds) => (~overflowed /\ WithinLimits)

\* C3: the bounds of a single op on an integer input are tight: the input just
\* above a MaxGood below the type's highest value, and the input just below a
\* MinGood above the type's lowest value, overflows or violates the Limits.
C3_BoundsTight ==
    (phase = "done" /\ SingleOp /\ is_integral(InT))
        => /\ (maxGood.value < InT.highest /\ x = maxGood.value + 1)
                => (overflowed \/ ~WithinLimits)
           /\ (minGood.value > InT.lowest /\ x = minGood.value - 1)
                => (overflowed \/ ~WithinLimits)


\* The run-time guard passed: would_input_produce_overflow(x) was false.
GuardPassed == ~tooSmall /\ ~tooLarge

\* C4: an input that passes would_input_produce_overflow of a sequence over
\* integer representations never produces an intermediate or final value
\* outside the representation of its stage.
C4_SequenceGuardSound ==
    (phase \in {"applying", "done"} /\ GuardPassed) => ~overflowed

CastToSelf == IsCast /\ InT = OutT /\ Unlimited

Narrowing ==
    /\ IsCast /\ is_integral(InT) /\ is_integral(OutT) /\ Unlimited
    /\ InT.lowest <= OutT.lowest /\ OutT.highest <= InT.highest
    /\ InT.lowest < OutT.lowest \/ OutT.highest < InT.highest

\* C6, as stated: a narrowing integer cast can overflow in both directions and
\* its bounds are the destination's extremes.
C6_NarrowingOverflowsBothWays ==
    (Analyzed /\ Narrowing)
        => /\ canBelow /\ canAbove
           /\ minGood = ConcreteValue(OutT.lowest)
           /\ maxGood = ConcreteValue(OutT.highest)

\* C6, amended: a narrowing integer cast has the destination's extremes as its
\* bounds and can overflow above; it can overflow below exactly when the
\* source is signed (from an unsigned source MinGood is zero, the source's own
\* lowest value).
C6_NarrowingBounds ==
    (Analyzed /\ Narrowing)
        => /\ canAbove
           /\ canBelow <=> is_signed(InT)
           /\ minGood = ConcreteValue(OutT.lowest)
           /\ maxGood = ConcreteValue(OutT.highest)

C6_Witness ==
    /\ phase = "checked" /\ ops = <<StaticCast(UInt16, UInt8)>> /\ Unlimited
    /\ ~canBelow /\ canAbove /\ x = UInt8.highest + 1 /\ tooLarge

\* C7: from a signed integer T to an unsigned integer U of any width, MinGood
\* is zero and MaxGood is the smaller of the highest values of T and U.
C7_SignedToUnsigned ==
    (Analyzed /\ IsCast /\ Unlimited /\ InT.kind = "signed" /\ OutT.kind = "unsigned")
        => /\ minGood = ConcreteValue(0)
           /\ maxGood = ConcreteValue(IF InT.highest <= OutT.highest
                                      THEN InT.highest ELSE OutT.highest)

C7_Witness ==
    /\ Analyzed /\ ops = <<StaticCast(Int16, UInt8)>> /\ Unlimited
    /\ minGood.value = 0 /\ maxGood.value = UInt8.highest

\* C8: no input of a cast from an unsigned integer type is too small, whatever
\* the arithmetic destination.
C8_UnsignedNeverTooSmall ==
    (Analyzed /\ IsCast /\ is_unsigned(InT) /\ is_arithmetic(OutT))
        => (~canBelow /\ (HasInput => ~tooSmall))

C8_Witness ==
    /\ phase = "checked" /\ ops = <<StaticCast(UInt16, Int8)>>
    /\ x = 0 /\ ~tooSmall /\ ~canBelow

FloatToInt == IsCast /\ is_floating_point(InT) /\ is_integral(OutT) /\ Unlimited

\* C9: MaxGood of a cast from floating point to an integer type is the greatest
\* floating point value not above the integer maximum: that maximum when it
\* fits the significand, else the all-ones significand doubled up to the
\* largest value strictly below the (rounded up) cast of the maximum.
C9_MaxFloatNotExceedingMaxInt ==
    (Analyzed /\ FloatToInt)
        => /\ IsRepresentable(InT, maxGood.value)
           /\ maxGood.value <= OutT.highest
           /\ \A f \in (maxGood.value + 1) .. OutT.highest : ~IsRepresentable(InT, f)
           /\ OutT.highest < Pow2(InT.digits) => maxGood.value = OutT.highest
           /\ OutT.highest >= Pow2(InT.digits) =>
                /\ maxGood.value < RoundToFloat(InT, OutT.highest)
                /\ maxGood.value = NextBelow(InT, RoundToFloat(InT, OutT.highest))
                /\ \E k \in 0 .. OutT.digits :
                      maxGood.value = (Pow2(InT.digits) - 1) * Pow2(k)

C9_Witness ==
    /\ Analyzed /\ ops = <<StaticCast(Float, Int16)>> /\ Unlimited
    /\ maxGood.value = 32640
    /\ RoundToFloat(Float, Int16.highest) = 32768

\* Scale by 1/n, n a positive integer with a value in T, and no Limits.
InverseScale ==
    /\ IsScale /\ is_integral(InT) /\ Unlimited
    /\ ops[1].M.num = 1 /\ IsRational(ops[1].M)
    /\ get_value_result(InT, MagInverseT(ops[1].M)).outcome = OK

\* C10: Scale(T, 1/n) carries no overflow risk: the bounds are the extremes of
\* T, both CanOverflow flags are false and no input is flagged.
C10_InverseScaleNeverOverflows ==
    (Analyzed /\ InverseScale)
        => /\ minGood = ConcreteValue(InT.lowest)
           /\ maxGood = ConcreteValue(InT.highest)
           /\ ~canBelow /\ ~canAbove
           /\ HasInput => GuardPassed


Negation == IsScale /\ InT.kind = "signed" /\ Unlimited /\ ops[1].M = Mag(-1, 1)

\* C11: Scale(T, -1) on a signed integer T without Limits has MaxGood = highest
\* and MinGood = -highest, so MinGood <= 0 <= MaxGood; every input within the
\* bounds is negated without overflow, and lowest is reported as too small.
C11_NegationBounds ==
    (Analyzed /\ Negation)
        => /\ maxGood = ConcreteValue(InT.highest)
           /\ minGood = ConcreteValue(-InT.highest)
           /\ minGood.value <= 0 /\ 0 <= maxGood.value
           /\ (phase = "done" /\ WithinBounds) => (~overflowed /\ val = -x)
           /\ (HasInput /\ x = InT.lowest) => tooSmall

C11_Witness ==
    /\ phase = "done" /\ ops = <<MultiplyTypeBy(Int8, Mag(-1, 1))>> /\ Unlimited
    /\ x = -Int8.highest /\ val = Int8.highest /\ ~overflowed /\ ~tooSmall

NegativeScaleOfUnsigned == IsScale /\ is_unsigned(InT) /\ ~IsPositive(ops[1].M)

\* C12: for an unsigned T and a negative factor, MinGood = MaxGood = 0 under any
\* Limits; every nonzero input is reported as overflowing and zero is not.
C12_UnsignedTimesNegative ==
    (Analyzed /\ NegativeScaleOfUnsigned)
        => /\ minGood = ConcreteValue(0)
           /\ maxGood = ConcreteValue(0)
           /\ HasInput => ((tooSmall \/ tooLarge) <=> x # 0)

C12_Witness ==
    /\ phase = "checked" /\ ops = <<MultiplyTypeBy(UInt8, Mag(-2, 1))>>
    /\ limits.present /\ x = 1 /\ tooLarge

\* A factor of absolute value below one whose inverse has no value in T.
InverseCannotFit ==
    /\ IsScale /\ is_integral(InT)
    /\ ~IsInteger(ops[1].M) /\ IsInteger(MagInverseT(ops[1].M))
    /\ get_value_result(InT, MagInverseT(Abs(ops[1].M))).outcome = ERR_CANNOT_FIT

\* C13: when the inverse of |M| cannot fit in T, the analysis still yields
\* values: MinGood is T's lowest and MaxGood is T's highest.
C13_CannotFitGivesExtremes ==
    (phase # "defined" /\ InverseCannotFit)
        => /\ Analyzed
           /\ minGood = ConcreteValue(InT.lowest)
           /\ maxGood = ConcreteValue(InT.highest)

\* C14: would_input_produce_overflow(x) is (x < MinGood) or (x > MaxGood): the
\* skip taken when a CanOverflow flag is false never changes the answer.
C14_SkipAgreesWithComparison ==
    HasInput => /\ tooSmall <=> x < MinGood(ops, NoLimits)
                /\ tooLarge <=> x > MaxGood(ops, NoLimits)

C14_Witness ==
    /\ phase = "checked" /\ ops = <<StaticCast(UInt16, Int8)>>
    /\ ~canBelow /\ canAbove /\ x = Int8.highest + 1 /\ tooLarge /\ ~tooSmall


\* Whether applying the sequence s to v leaves the output type at some stage.
RECURSIVE SeqOverflows(_, _)
SeqOverflows(s, v) ==
    IF s = <<>> THEN FALSE
    ELSE IF Overflows(s[1], v) THEN TRUE
    ELSE SeqOverflows(Tail(s), apply_to(s[1], v))

CanApplyAll(s) == \A i \in 1 .. Len(s) : CanApply(s[i])

\* The inputs of s considered when looking for one that overflows.
CandidateInputs(s) ==
    Inputs(OpSequenceInput(s), {MinGood(s, NoLimits), MaxGood(s, NoLimits)})

\* C15: over integer representations, CanOverflowBelow is true exactly when
\* some input on the low side (below zero) makes the operation exceed its
\* bounds when applied, and CanOverflowAbove exactly when some input on the
\* high side (above zero) does.
C15_CanOverflowIsExact ==
    /\ (phase \in {"applying", "done"} /\ overflowed /\ x < 0) => canBelow
    /\ (phase \in {"applying", "done"} /\ overflowed /\ x > 0) => canAbove
    /\ (phase = "analyzed" /\ CanApplyAll(ops) /\ canBelow)
          => \E v \in CandidateInputs(ops) : v < 0 /\ SeqOverflows(ops, v)
    /\ (phase = "analyzed" /\ CanApplyAll(ops) /\ canAbove)
          => \E v \in CandidateInputs(ops) : v > 0 /\ SeqOverflows(ops, v)

----------------------------------------------------------------------------
(* Truncation risk of single operations.                                   *)

Assessed == risk # NotAssessed

\* The risks in the words of the documentation.  "Not divisible by n" is the
\* risk that the value times 1/n is not an integer.
NoRisk(T)                == NoTruncationRisk(T)
NonIntegerValuesRisk(T)  == ValueIsNotInteger(T)
AllNonzeroValuesRisk(T)  == ValueIsNotZero(T)
NotDivisibleByRisk(T, D) == ValueTimesRatioIsNotInteger(T, MagInverseT(D))
CannotAssess(T, op)      == CannotAssessTruncationRiskFor(T, LoneOp(op))

\* C16: the risk of Cast(T, U) is NonIntegerValuesRisk tagged T from a
\* floating point T to an integer U, NoRisk tagged T for every other cast
\* between arithmetic representations, and CannotAssess carrying Cast(T, U)
\* when T or U is not arithmetic.
C16_CastRisk ==
    (IsCast /\ Assessed) =>
        risk = IF ~is_arithmetic(ops[1].T) \/ ~is_arithmetic(ops[1].U)
               THEN CannotAssess(ops[1].T, StaticCast(ops[1].T, ops[1].U))
               ELSE IF is_floating_point(ops[1].T) /\ is_integral(ops[1].U)
                    THEN NonIntegerValuesRisk(ops[1].T)
                    ELSE NoRisk(ops[1].T)

C16_Witness ==
    /\ ops = <<StaticCast(Float, Int16)>>
    /\ risk = NonIntegerValuesRisk(Float)
    /\ phase = "done"

\* The values a risk names: those the operation may not carry exactly.
RiskNames(r, v) ==
    CASE r.kind = "ValueIsNotZero" -> v # 0
      [] r.kind = "ValueTimesRatioIsNotInteger" -> (v * r.M.num) % r.M.den # 0
      [] OTHER -> FALSE

ScaleOfArithmetic == IsScale /\ Assessed /\ is_arithmetic(InT)

\* The risk of a scale of an integer representation by a rational that is not
\* an integer, as the documentation has it and as the code has it.
RiskByDenominator(T, M) == NotDivisibleByRisk(T, DenominatorT(M))
RiskByRatio(T, M)       == ValueTimesRatioIsNotInteger(T, M)

ExpectedScaleRisk(T, M, byRatio) ==
    IF IsInteger(M) \/ is_floating_point(T) THEN NoRisk(T)
    ELSE IF ~IsRational(M) THEN AllNonzeroValuesRisk(T)
    ELSE IF byRatio THEN RiskByRatio(T, M)
    ELSE RiskByDenominator(T, M)

C18_NonArithmeticScaleRisk ==
    (IsScale /\ Assessed /\ ~is_arithmetic(InT)) =>
        risk = CannotAssess(InT, MultiplyTypeBy(InT, ops[1].M))

C18_Witness ==
    /\ ops = <<MultiplyTypeBy(NonArithmetic, Mag(2, 1))>>
    /\ risk = CannotAssessTruncationRiskFor(NonArithmetic, LoneOp(ops[1]))

\* Scale(T, 1/n) of an integer T by an integer n > 1 that T can represent.
InverseOfInteger ==
    /\ IsScale
    /\ is_integral(InT)
    /\ IsRational(ops[1].M)
    /\ ops[1].M.num = 1
    /\ ops[1].M.den > 1
    /\ InRange(InT, ops[1].M.den)

\* C19: Scale(T, 1/n) yields x / n truncated toward zero; multiplying the
\* result by n fails to restore x exactly for the x that n does not divide,
\* and those are the values that the risk of the scale, NotDivisibleByRisk(n),
\* names.
C19_InverseScaleTruncates ==
    (phase = "done" /\ InverseOfInteger) =>
        /\ val = TruncDiv(x, ops[1].M.den)
        /\ AbsInt(val) * ops[1].M.den <= AbsInt(x)
        /\ (val * ops[1].M.den # x) <=> (x % ops[1].M.den # 0)
        /\ Assessed =>
              /\ risk = NotDivisibleByRisk(InT, Mag(ops[1].M.den, 1))
              /\ RiskNames(risk, x) <=> (val * ops[1].M.den # x)

C19_Witness ==
    /\ ops = <<MultiplyTypeBy(Int8, Mag(1, 3))>>
    /\ phase = "done"
    /\ x = 10
    /\ val = 3
    /\ risk = NotDivisibleByRisk(Int8, Mag(3, 1))
    /\ RiskNames(risk, x)

----------------------------------------------------------------------------
(* Round trips through a scale and its inverse.                            *)

ScalePair ==
    /\ Len(ops) = 2
    /\ ops[1].kind = "MultiplyTypeBy"
    /\ ops[2].kind = "MultiplyTypeBy"
    /\ is_integral(InT)
    /\ ops[2].T = InT
    /\ ops[2].M = MagInverseT(ops[1].M)

\* Scale(T, M) then Scale(T, Inverse(M)), and the opposite order, M an integer.
TimesThenDividedBy == ScalePair /\ IsInteger(ops[1].M)
DividedByThenTimes == ScalePair /\ IsInteger(ops[2].M) /\ ~IsInteger(ops[1].M)

ProductInRange == InRange(InT, x * ops[1].M.num)

\* C20 as stated: Scale(T, M) then Scale(T, Inverse(M)), on an x whose product
\* x * M is in the range of T, reproduces x exactly if and only if M divides x.
C20_RoundTripIffDivisible ==
    (phase = "done" /\ TimesThenDividedBy /\ ProductInRange) =>
        (val = x <=> x % AbsInt(ops[1].M.num) = 0)

\* C20, amended: Scale(T, M) then Scale(T, Inverse(M)) reproduces every x whose
\* product x * M is in the range of T; it is Scale(T, Inverse(M)) then
\* Scale(T, M) that reproduces x if and only if M divides x.
C20_RoundTripExact ==
    /\ (phase = "done" /\ TimesThenDividedBy /\ ProductInRange) =>
           (val = x /\ ~overflowed)
    /\ (phase = "done" /\ DividedByThenTimes /\ InRange(InT, ops[2].M.num)) =>
           (val = x <=> x % AbsInt(ops[2].M.num) = 0)

C20_Witness ==
    /\ ops = <<MultiplyTypeBy(Int8, Mag(2, 1)), MultiplyTypeBy(Int8, Mag(1, 2))>>
    /\ phase = "done"
    /\ x = 3
    /\ val = 3
    /\ ~overflowed

----------------------------------------------------------------------------
(* Truncation risk of sequences, and UpdateRisk.                           *)

\* The output of each op of the sequence is the input of the next.
TypesAgree(s) == \A i \in 1 .. Len(s) - 1 : OpOutput(s[i]) = OpInput(s[i + 1])

\* The risk of the last op, re-expressed through each preceding op with
\* UpdateRisk, back to the head.
RECURSIVE PropagatedRisk(_)
PropagatedRisk(s) ==
    IF Len(s) = 1 THEN TruncationRiskForImpl(s[1])
    ELSE UpdateRisk(s[1], PropagatedRisk(Tail(s)))

IsDescriptor(r) == r.kind \in {"NoTruncationRisk", "ValueIsNotZero", "ValueTimesRatioIsNotInteger", "CannotAssessTruncationRiskFor"}

\* C21: TruncationRiskFor of a sequence of two or more ops is a risk
\* descriptor, the risk of the tail re-expressed through each preceding op
\* with UpdateRisk.
C21_SequenceRiskIsPropagated ==
    (Assessed /\ Len(ops) >= 2 /\ TypesAgree(ops)) =>
        (IsDescriptor(risk) /\ risk = PropagatedRisk(ops))

----------------------------------------------------------------------------
(* The conversion built for two representations and a factor.              *)

Built == request # NoRequest /\ ops # <<>>

\* The representation that ordinary arithmetic promotion selects for two
\* representations: the floating point one if there is one, else int.
Promoted(A, B) == IF is_floating_point(A) \/ is_floating_point(B) THEN Float ELSE Int32

IsMultiply(op) == op.kind = "MultiplyTypeBy"
IsStaticCast(op) == op.kind = "StaticCast"

\* The ops of the built conversion that apply the factor, and its casts.
FactorPart == SelectSeq(ops, IsMultiply)
CastPart   == SelectSeq(ops, IsStaticCast)

HasLeadingCast  == ops[1] = StaticCast(request.OldRep, Promoted(request.OldRep, request.NewRep))
HasTrailingCast == ops[Len(ops)] = StaticCast(Promoted(request.OldRep, request.NewRep), request.NewRep)

CastsExpected(Old, New) == (IF Old # Promoted(Old, New) THEN 1 ELSE 0) + (IF New # Promoted(Old, New) THEN 1 ELSE 0)

\* C22: the conversion built for (OldRep, NewRep, Factor) takes OldRep and
\* yields NewRep, the output of each op is the input of the next, the factor
\* is applied in the promoted representation, and the leading (trailing) cast
\* is there exactly when OldRep (NewRep) is not the promoted representation.
C22_BuiltConversionShape ==
    Built =>
        /\ OpSequenceInput(ops) = request.OldRep
        /\ OpSequenceOutput(ops) = request.NewRep
        /\ TypesAgree(ops)
        /\ FactorPart # <<>>
        /\ \A i \in 1 .. Len(FactorPart) : FactorPart[i].T = Promoted(request.OldRep, request.NewRep)
        /\ HasLeadingCast <=> request.OldRep # Promoted(request.OldRep, request.NewRep)
        /\ HasTrailingCast <=> request.NewRep # Promoted(request.OldRep, request.NewRep)
        /\ Len(CastPart) = CastsExpected(request.OldRep, request.NewRep)

C22_Witness ==
    /\ request = [OldRep |-> Int8, NewRep |-> Int32, Factor |-> Mag(2, 3)]
    /\ ops = <<StaticCast(Int8, Int32), MultiplyTypeBy(Int32, Mag(2, 1)), MultiplyTypeBy(Int32, Mag(1, 3))>>

SingleScale(P, F) == <<MultiplyTypeBy(P, F)>>
TwoStepScale(P, F) == <<MultiplyTypeBy(P, Mag(F.num, 1)), MultiplyTypeBy(P, Mag(1, F.den))>>

\* C23 as stated: the factor is applied as Scale by the numerator, then Scale
\* by one over the denominator, whenever it is a non-integer rational (a
\* reciprocal of an integer included) and the promoted representation is an
\* integer one; as a single Scale in every other case.
C23_EveryRationalIsSplit ==
    Built =>
        FactorPart = IF IsRational(request.Factor) /\ ~IsInteger(request.Factor) /\ is_integral(Promoted(request.OldRep, request.NewRep))
                     THEN TwoStepScale(Promoted(request.OldRep, request.NewRep), request.Factor)
                     ELSE SingleScale(Promoted(request.OldRep, request.NewRep), request.Factor)

\* C23, amended: the factor is split only when it is a rational that is
\* neither an integer nor the reciprocal of an integer; a reciprocal such as
\* 1/3 is applied as the single Scale by 1/3.
C23_ApplyFactor ==
    Built =>
        FactorPart = IF IsRational(request.Factor) /\ AbsInt(request.Factor.num) # 1 /\ request.Factor.den # 1 /\ is_integral(Promoted(request.OldRep, request.NewRep))
                     THEN TwoStepScale(Promoted(request.OldRep, request.NewRep), request.Factor)
                     ELSE SingleScale(Promoted(request.OldRep, request.NewRep), request.Factor)

C23_Witness ==
    /\ request = [OldRep |-> Int16, NewRep |-> Int16, Factor |-> Mag(1, 3)]
    /\ ops = <<StaticCast(Int16, Int32), MultiplyTypeBy(Int32, Mag(1, 3)), StaticCast(Int32, Int16)>>

----------------------------------------------------------------------------
(* The representation a scale works in.                                    *)

----------------------------------------------------------------------------
(* Bounds of sequences.                                                    *)

\* The bounds of the rest of the sequence under the caller's Limits, as the
\* Limits of its first op.
SynthesizedLimits == MakeLimits(MinGood(Tail(ops), limits), MaxGood(Tail(ops), limits))

\* C25: the bounds of a sequence of two or more ops under the caller's Limits
\* are the bounds of its first op under the Limits synthesized from the bounds
\* of the rest under the caller's Limits; the bounds of a sequence of one op
\* are those of the op under the caller's Limits.
C25_BackToFront ==
    Analyzed =>
        /\ Len(ops) >= 2 =>
              /\ minGood.value = MinGood(<<ops[1]>>, SynthesizedLimits)
              /\ maxGood.value = MaxGood(<<ops[1]>>, SynthesizedLimits)
        /\ Len(ops) = 1 =>
              /\ minGood.value = ImplValue(MinGoodImpl(ops[1]), ops[1], limits)
              /\ maxGood.value = ImplValue(MaxGoodImpl(ops[1]), ops[1], limits)

\* A narrowing cast after a doubling: the caller's upper limit of 1 reaches
\* the scale through the cast, and is halved.
C25_Witness ==
    /\ ops = <<MultiplyTypeBy(Int16, Mag(2, 1)), StaticCast(Int16, Int8)>>
    /\ limits = MakeLimits(Int8.lowest, 1)
    /\ phase = "analyzed"
    /\ minGood.value = -64
    /\ maxGood.value = 0

----------------------------------------------------------------------------
(* Operations that are not well formed.                                    *)

\* A cast whose source or destination is not an arithmetic representation.
IsNonArithmeticCast(op) ==
    op.kind = "StaticCast" /\ (~is_arithmetic(op.T) \/ ~is_arithmetic(op.U))

HasNonArithmeticCast(s) == \E i \in 1 .. Len(s) : IsNonArithmeticCast(s[i])

Malformed(s) == ~TypesAgree(s) \/ HasNonArithmeticCast(s)

\* The analysis never yielded a bound, and no value was checked or converted.
NeverAnalyzed ==
    /\ phase \in {"defined", "rejected"}
    /\ minGood = NotComputed
    /\ maxGood = NotComputed
    /\ idx = 0

\* C26: a sequence in which the output of some op is not the input of the
\* next, and a cast from or to a representation that is not arithmetic, are
\* rejected when they are analysed: MinGood and MaxGood never have a value for
\* them, and no value is checked against them or converted by them.
C26_MalformedIsRejected == Malformed(ops) => NeverAnalyzed

----------------------------------------------------------------------------
(* UpdateRisk: a downstream risk seen from the input of the op before it.  *)

\* UpdateRisk was applied to the op and to a downstream risk on its output.
Updated == Assessed /\ downstream # NotAssessed /\ downstream.T = OpOutput(ops[1])

UpdatedThroughCast ==
    Updated /\ ops[1].kind = "StaticCast" /\ is_arithmetic(ops[1].T) /\ is_arithmetic(ops[1].U)

UpdatedThroughScale == Updated /\ ops[1].kind = "MultiplyTypeBy"

\* The downstream risks the documentation names: NoRisk, NonIntegerValuesRisk,
\* AllNonzeroValuesRisk and NotDivisibleByRisk of an integer.
IsNamedRisk(r) ==
    \/ r.kind \in {"NoTruncationRisk", "ValueIsNotZero"}
    \/ r.kind = "ValueTimesRatioIsNotInteger" /\ IsInteger(MagInverseT(r.M)) /\ IsPositive(r.M)

Retagged(r, T) == [r EXCEPT !.T = T]

\* C27 as stated: through Cast(T, U) every named downstream risk keeps its
\* kind and its factor and is only re-tagged from U to T, for every arithmetic
\* T and U.
C27_CastOnlyRetags ==
    (UpdatedThroughCast /\ IsNamedRisk(downstream)) => risk = Retagged(downstream, ops[1].T)

\* C27: through Cast(T, U) a downstream NoRisk or AllNonzeroValuesRisk is
\* re-tagged from U to T; a downstream risk that the value times a ratio is
\* not an integer (NonIntegerValuesRisk is the ratio 1) is NoRisk tagged T
\* when T is an integer representation and the ratio is an integer, and is
\* re-tagged with its ratio unchanged otherwise.
C27_CastRetagsOrClears ==
    UpdatedThroughCast =>
        /\ IsRiskOfOneParameter(downstream) => risk = Retagged(downstream, ops[1].T)
        /\ (downstream.kind = "ValueTimesRatioIsNotInteger" /\ is_integral(ops[1].T) /\ IsInteger(downstream.M))
              => risk = NoRisk(ops[1].T)
        /\ (downstream.kind = "ValueTimesRatioIsNotInteger" /\ ~(is_integral(ops[1].T) /\ IsInteger(downstream.M)))
              => risk = Retagged(downstream, ops[1].T)

\* The risk of a cast from float to int8, seen through a cast from int8 to
\* float, is none: every int8 is an integer.
C27_Witness ==
    /\ ops = <<StaticCast(Int8, Float)>>
    /\ downstream = NonIntegerValuesRisk(Float)
    /\ risk = NoRisk(Int8)

\* C28 as stated, the factor of the risk read as the ratio it carries:
\* through Scale(T, M1) a downstream risk of ratio M2 is the risk of ratio
\* M1 x M2 tagged T when M1 is rational, AllNonzeroValuesRisk tagged T when
\* M1 is irrational, for every T and M2.
C28_ScaleCombinesRatios ==
    (UpdatedThroughScale /\ downstream.kind = "ValueTimesRatioIsNotInteger") =>
        risk = IF IsRational(ops[1].M)
               THEN ValueTimesRatioIsNotInteger(ops[1].T, MagProductT(ops[1].M, downstream.M))
               ELSE AllNonzeroValuesRisk(ops[1].T)

\* C28: through Scale(T, M1) with M1 rational, a downstream risk of ratio M2
\* is NoRisk tagged T when T is an integer representation and M1 x M2 is an
\* integer, and the risk of ratio M1 x M2 tagged T otherwise; with M1
\* irrational it is AllNonzeroValuesRisk tagged T.
C28_ScaleCombinesOrClears ==
    (UpdatedThroughScale /\ downstream.kind = "ValueTimesRatioIsNotInteger") =>
        /\ ~IsRational(ops[1].M) => risk = AllNonzeroValuesRisk(ops[1].T)
        /\ (IsRational(ops[1].M) /\ is_integral(ops[1].T) /\ IsInteger(MagProductT(ops[1].M, downstream.M)))
              => risk = NoRisk(ops[1].T)
        /\ (IsRational(ops[1].M) /\ ~(is_integral(ops[1].T) /\ IsInteger(MagProductT(ops[1].M, downstream.M))))
              => risk = ValueTimesRatioIsNotInteger(ops[1].T, MagProductT(ops[1].M, downstream.M))

\* Not divisible by 3 downstream of a scale by 1/2: not divisible by 6.
C28_Witness ==
    /\ ops = <<MultiplyTypeBy(Int8, Mag(1, 2))>>
    /\ downstream = NotDivisibleByRisk(Int8, Mag(3, 1))
    /\ risk = NotDivisibleByRisk(Int8, Mag(6, 1))

\* C29: UpdateRisk of an op and a downstream CannotAssess on the op's output
\* is CannotAssess tagged with the op's input, carrying the flat sequence of
\* the op followed by the old residual: the op and R for a lone op R, the op
\* and r1 .. rk for a sequence r1 .. rk.
C29_CannotAssessPrepends ==
    (Updated /\ downstream.kind = "CannotAssessTruncationRiskFor") =>
        /\ risk.kind = "CannotAssessTruncationRiskFor"
        /\ risk.T = OpInput(ops[1])
        /\ risk.Op = [depth |-> 1, ops |-> <<ops[1]>> \o downstream.Op.ops]

\* A residual sequence of two ops behind a cast: a flat sequence of three.
C29_Witness ==
    /\ ops = <<StaticCast(Int8, Int16)>>
    /\ downstream.kind = "CannotAssessTruncationRiskFor"
    /\ downstream.Op.depth = 1
    /\ risk.kind = "CannotAssessTruncationRiskFor"
    /\ risk.Op.depth = 1
    /\ risk.Op.ops = <<StaticCast(Int8, Int16), MultiplyTypeBy(Int16, Mag(2, 1)), StaticCast(Int16, NonArithmetic)>>

----------------------------------------------------------------------------
(* The sign of the bounds.                                                 *)

=============================================================================
